---- MODULE Spec2Model ----
(***************************************************************************)
(* Model of the data-driven HTTP API test runner.                          *)
(*   src/Role_based.py : the aggregate-report variant (run_all_tests)      *)
(*   src/new.py        : the assertion-based pytest variant                *)
(*                        (test_api_from_json)                             *)
(* Text is modelled as sequences of one-character strings so that lower(), *)
(* strip() and substring containment are computed, not assumed.            *)
(***************************************************************************)
EXTENDS Integers, Sequences, FiniteSets, TLC

VARIABLES
  variant,        \* "role_based" (Role_based.py) or "new" (new.py under pytest)
  pc,             \* position of the process
  files,          \* the discovered suite files (input, immutable)
  env,            \* configured credentials and the login service (input, immutable)
  ALL_TOKENS,     \* Role_based.py:219 token cache, key -> access token
  loginCalls,     \* number of POSTs to the login endpoint, per role
  prefetched,     \* number of role_map entries already pre-fetched
  fileIdx,        \* index of the file being processed
  caseIdx,        \* index of the last case taken from the current file
  fileCfg,        \* file-level data of the loaded suite (headers, tokens)
  cur,            \* the resolved request of the case in the retry loop
  attempt,        \* Role_based.py:310 retry counter
  SUMMARY,        \* total / passed / failed / skipped counters
  results,        \* SUMMARY["results"] (Role_based.py)
  slow_tests,     \* SUMMARY["slow_tests"]
  PERF_STATS,     \* elapsed-time samples (Role_based.py PERF_STATS, new.py SUMMARY["times"])
  lastHttp,       \* what the step just taken did on the wire: "none", "response", "error"
  lastAttempt,    \* the value of attempt when the HTTP attempt just taken started, else 0
  lastCase,       \* the test case the step just taken took from the suite, or NoCase
  pytestReport,   \* new.py: outcome pytest records per parametrized test (file)
  exitCode,       \* process exit status, -1 while running
  fnIn,           \* input of the pure function under check
  fnOut           \* its result

runVars == <<variant, pc, files, env, ALL_TOKENS, loginCalls, prefetched, fileIdx, caseIdx,
             fileCfg, cur, attempt, SUMMARY, results, slow_tests, PERF_STATS,
             lastHttp, lastAttempt, lastCase, pytestReport, exitCode>>
runVarsButPc == <<variant, files, env, ALL_TOKENS, loginCalls, prefetched, fileIdx, caseIdx,
                  fileCfg, cur, attempt, SUMMARY, results, slow_tests, PERF_STATS,
                  lastHttp, lastAttempt, lastCase, pytestReport, exitCode>>
vars == <<runVars, fnIn, fnOut>>

None == [t |-> "null"]

(***************************************************************************)
(* Text                                                                    *)
(***************************************************************************)
LowerChar(c) == IF c = "A" THEN "a" ELSE IF c = "B" THEN "b" ELSE c

Lower(s) == [i \in 1..Len(s) |-> LowerChar(s[i])]

RECURSIVE LStrip(_)
LStrip(s) == IF s # <<>> /\ Head(s) = " " THEN LStrip(Tail(s)) ELSE s

RECURSIVE RStrip(_)
RStrip(s) == IF s # <<>> /\ s[Len(s)] = " " THEN RStrip(SubSeq(s, 1, Len(s) - 1)) ELSE s

Strip(s) == RStrip(LStrip(s))

\* Python's `sub in s` on strings
Contains(sub, s) ==
  \E i \in 0..(Len(s) - Len(sub)) : SubSeq(s, i + 1, i + Len(sub)) = sub

(***************************************************************************)
(* JSON values: [t |-> "str", s], [t |-> "int", n], [t |-> "bool", b],     *)
(* [t |-> "null"], [t |-> "list", items], [t |-> "dict", f]                *)
(***************************************************************************)
JStr(s) == [t |-> "str", s |-> s]
JInt(n) == [t |-> "int", n |-> n]
JBool(b) == [t |-> "bool", b |-> b]
JList(items) == [t |-> "list", items |-> items]
JDict(f) == [t |-> "dict", f |-> f]
EmptyDict == JDict([k \in {} |-> None])

IsDict(v) == v.t = "dict"
IsList(v) == v.t = "list"
HasKey(d, k) == IsDict(d) /\ k \in DOMAIN d.f
\* dict.get(k, default)
Get(d, k, default) == IF k \in DOMAIN d.f THEN d.f[k] ELSE default

Digit(n) == CASE n = 0 -> "0" [] n = 1 -> "1" [] n = 2 -> "2" [] n = 3 -> "3"
              [] n = 4 -> "4" [] n = 5 -> "5" [] n = 6 -> "6" [] n = 7 -> "7"
              [] n = 8 -> "8" [] n = 9 -> "9"

RECURSIVE NatStr(_)
NatStr(n) == IF n < 10 THEN <<Digit(n)>> ELSE NatStr(n \div 10) \o <<Digit(n % 10)>>

\* Python's str(v); the repr of a container is text outside the alphabet of
\* the expectations drawn here
PyStr(v) ==
  CASE v.t = "str" -> v.s
    [] v.t = "int" -> IF v.n < 0 THEN <<"-">> \o NatStr(-v.n) ELSE NatStr(v.n)
    [] v.t = "bool" -> IF v.b THEN <<"T", "r", "u", "e">> ELSE <<"F", "a", "l", "s", "e">>
    [] v.t = "null" -> <<"N", "o", "n", "e">>
    [] v.t = "list" -> <<"[", "...", "]">>
    [] v.t = "dict" -> <<"{", "...", "}">>

(***************************************************************************)
(* Response validation, Role_based.py                                      *)
(***************************************************************************)
\* int(k) of a path segment; a segment outside the domain raises ValueError
SegInt == [k \in {"0", "1", "2"} |-> CASE k = "0" -> 0 [] k = "1" -> 1 [] k = "2" -> 2]

\* test types t for which "authentication" in t.lower()
AuthTypes == {"authentication", "Authentication-negative"}

\* a faulty variant of ValueMatches: the actual value is not lower-cased
ValueMatchesCaseSensitive(expected_value, actual_value, partial) ==
  IF partial
  THEN Contains(Lower(expected_value), actual_value)
  ELSE expected_value = actual_value

\* Role_based.py:148-153 and 193-200, the comparison of one expected value
\* against one actual value under the ALLOW_PARTIAL_MESSAGE_MATCH toggle
ValueMatches(expected_value, actual_value, partial) ==
  IF partial
  THEN Contains(Lower(expected_value), Lower(actual_value))
  ELSE expected_value = actual_value

\* Role_based.py:144-153, one key of ("status", "message")
TopLevelErrors(resp_json, expected_response_dict, key, partial) ==
  IF key \in DOMAIN expected_response_dict.f
  THEN LET expected_value == Strip(PyStr(expected_response_dict.f[key]))
           actual_value == Strip(PyStr(Get(resp_json, key, JStr(<<>>))))
       IN IF ValueMatches(expected_value, actual_value, partial)
          THEN <<>>
          ELSE << <<"Expected", key, expected_value, actual_value>> >>
  ELSE <<>>

\* Role_based.py:155-165
ContentErrors(resp_json, query_content, test_type) ==
  IF query_content # None /\ query_content.s # <<>> /\ test_type # ""
     /\ test_type \notin AuthTypes
  THEN LET data_list == Get(resp_json, "data", JList(<<>>))
       IN IF IsList(data_list)
          THEN IF \E i \in 1..Len(data_list.items) :
                    /\ IsDict(data_list.items[i])
                    /\ Contains(Lower(query_content.s),
                                Lower(PyStr(Get(data_list.items[i], "farmer_full_name",
                                                JStr(<<>>)))))
               THEN <<>>
               ELSE << <<"Query content not found", query_content.s>> >>
          ELSE << <<"Response 'data' is not a list">> >>
  ELSE <<>>

\* Role_based.py:169-188, the walk along the segments of key_path.split(".")
RECURSIVE Resolve(_, _)
Resolve(val, keys) ==
  IF keys = <<>> THEN val
  ELSE LET k == Head(keys)
       IN IF IsList(val)
          THEN IF k \in DOMAIN SegInt /\ SegInt[k] < Len(val.items)
               THEN Resolve(val.items[SegInt[k] + 1], Tail(keys))
               ELSE None
          ELSE IF IsDict(val) /\ k \in DOMAIN val.f
               THEN Resolve(val.f[k], Tail(keys))
               ELSE None

\* Role_based.py:167-200; nested_keys is the dict in insertion order, a
\* sequence of <<key_path, expected_value>>
RECURSIVE NestedErrors(_, _, _)
NestedErrors(resp_json, nested_keys, partial) ==
  IF nested_keys = <<>> THEN <<>>
  ELSE LET key_path == Head(nested_keys)[1]
           expected_value == Head(nested_keys)[2]
           val == Resolve(resp_json, key_path)
           here == IF val = None
                   THEN << <<"Missing nested key", key_path>> >>
                   ELSE IF ValueMatches(PyStr(expected_value), PyStr(val), partial)
                        THEN <<>>
                        ELSE << <<"Nested key value mismatch", key_path,
                                  PyStr(expected_value), PyStr(val)>> >>
       IN here \o NestedErrors(resp_json, Tail(nested_keys), partial)

\* Role_based.py:135-202; `partial` is the global ALLOW_PARTIAL_MESSAGE_MATCH
validate_response_simple(resp_json, expected_response, query_content, test_type, nested_keys, partial) ==
  IF ~IsDict(resp_json)
  THEN [ok |-> FALSE, errors |-> << <<"Response is not a JSON object">> >>]
  ELSE LET expected_response_dict ==
             IF IsDict(expected_response) THEN expected_response ELSE EmptyDict
           errors == TopLevelErrors(resp_json, expected_response_dict, "status", partial)
                     \o TopLevelErrors(resp_json, expected_response_dict, "message", partial)
                     \o ContentErrors(resp_json, query_content, test_type)
                     \o NestedErrors(resp_json, nested_keys, partial)
       IN [ok |-> errors = <<>>, errors |-> errors]

\* Role_based.py:205-213; header dicts are functions name -> value, header
\* values are compared through str(v).lower()
validate_headers(resp_headers, expected_headers) ==
  LET bad == {k \in DOMAIN expected_headers :
                \/ k \notin DOMAIN resp_headers
                \/ Lower(resp_headers[k]) # Lower(expected_headers[k])}
  IN [ok |-> bad = {}, errors |-> bad]

(***************************************************************************)
(* Bounded input domains                                                   *)
(***************************************************************************)
MaxTextLen == 2

Chars == {"a", "A", " "}

RECURSIVE TextsUpTo(_)
TextsUpTo(n) ==
  IF n = 0 THEN {<<>>}
  ELSE LET shorter == TextsUpTo(n - 1)
       IN shorter \cup {Append(s, c) : s \in {x \in shorter : Len(x) = n - 1}, c \in Chars}

Texts == TextsUpTo(MaxTextLen)

\* a dict from a set of <<key, value>> pairs with distinct keys
MkDict(pairs) ==
  JDict([k \in {p[1] : p \in pairs} |-> (CHOOSE p \in pairs : p[1] = k)[2]])

Absent == [t |-> "absent"]
OptPair(k, v) == IF v = Absent THEN {} ELSE {<<k, v>>}

\* values of the response's "data" member
DataChoices ==
  { Absent,
    JList(<< MkDict({<<"farmer_full_name", JStr(<<"a", "A">>)>>}) >>),
    JList(<< JStr(<<"a">>), MkDict({<<"id", JInt(1)>>}) >>),
    MkDict({<<"name", JStr(<<"A">>)>>, <<"n", None>>}) }

\* nested_keys: <<key_path.split("."), expected_value>> in insertion order
NestedChoices ==
  { <<>>,
    << <<<<"data", "0", "farmer_full_name">>, JStr(<<"a">>)>> >>,
    << <<<<"data", "0", "farmer_full_name">>, JStr(<<"a", "A">>)>> >>,
    << <<<<"data", "1", "id">>, JInt(1)>> >>,
    << <<<<"data", "name">>, JStr(<<"a">>)>>, <<<<"data", "n">>, JStr(<<"a">>)>> >>,
    << <<<<"data", "x">>, JStr(<<"a">>)>> >> }

\* <<query_params.get("content"), case type>>
ContentChoices ==
  { <<None, "">>, <<JStr(<<"A">>), "search">>, <<JStr(<<"A">>), "authentication">> }

RespBodies ==
  { JList(<<>>) } \cup
  { MkDict(OptPair("status", st) \cup OptPair("message", msg) \cup OptPair("data", d)) :
      st \in {Absent} \cup {JStr(s) : s \in Texts},
      msg \in {Absent, JStr(<<"a">>)},
      d \in DataChoices }

ExpectedResponses ==
  { JList(<<>>) } \cup
  { MkDict(OptPair("status", st) \cup OptPair("message", msg)) :
      st \in {Absent} \cup {JStr(s) : s \in Texts},
      msg \in {Absent, JStr(<<"A">>)} }

ValidateInputs ==
  [ resp_json : RespBodies, expected_response : ExpectedResponses,
    content : ContentChoices, nested_keys : NestedChoices ]

(***************************************************************************)
(* Headers, tokens and the resolved request                                *)
(***************************************************************************)
\* header dicts are functions from header names to text
NoHeaders == [k \in {} |-> <<>>]

\* {**a, **b}
Merge(a, b) == [k \in DOMAIN a \cup DOMAIN b |-> IF k \in DOMAIN b THEN b[k] ELSE a[k]]

\* d.pop(k, None)
Pop(d, k) == [x \in DOMAIN d \ {k} |-> d[x]]

\* d[k] = v
Put(d, k, v) == [x \in DOMAIN d \cup {k} |-> IF x = k THEN v ELSE d[x]]

\* k.lower() of a header name
LowerName ==
  [ k \in {"Authorization", "authorization", "AUTHORIZATION", "X-ID-Token", "x-id-token",
           "Token", "X-Api-Key", "X-Access-Token", "Accept", "X-Trace", "Content-Type"} |->
      CASE k \in {"Authorization", "authorization", "AUTHORIZATION"} -> "authorization"
        [] k \in {"X-ID-Token", "x-id-token"} -> "x-id-token"
        [] k = "Token" -> "token"
        [] k = "X-Api-Key" -> "x-api-key"
        [] k = "X-Access-Token" -> "x-access-token"
        [] k = "Accept" -> "accept"
        [] k = "X-Trace" -> "x-trace"
        [] k = "Content-Type" -> "content-type" ]

Redacted == <<"***redacted***">>

\* new.py:61-68 (the sensitive set of new.py)
redact_headers_new(headers) ==
  [ k \in DOMAIN headers |->
      IF LowerName[k] \in {"authorization", "token", "x-api-key", "x-access-token"}
      THEN Redacted ELSE headers[k] ]

\* Role_based.py:112-119
redact_headers(headers) ==
  [ k \in DOMAIN headers |->
      IF LowerName[k] \in {"authorization", "token", "x-api-key", "x-access-token", "x-id-token"}
      THEN Redacted ELSE headers[k] ]

\* Role_based.py:220-225, in insertion order
role_map ==
  << <<"valid_admin", "admin">>, <<"valid_aggregator", "aggregator">>,
     <<"valid_branch", "branch">>, <<"valid", "admin">> >>

Roles == {"admin", "aggregator", "branch"}

TokenKeys == {role_map[i][1] : i \in 1..Len(role_map)}

EmptyTokens == [access_token |-> <<>>, id_token |-> <<>>, refresh_token |-> <<>>]

\* the token set the login endpoint returns for a role
IssuedTokens(role) ==
  [access_token |-> <<"acc-", role>>, id_token |-> <<"id-", role>>, refresh_token |-> <<"ref-", role>>]

\* Role_based.py:108-109
deterministic_dummy_id_token(seed_value) == <<"dummy-id-", seed_value>>

Bearer(tok) == <<"Bearer ">> \o tok

AcceptJson == [k \in {"Accept"} |-> <<"application/json">>]

\* case.get("auth_token", "valid"): auth_token is Absent, None (JSON null) or a name
TokenKeyOf(auth_token) == IF auth_token = Absent THEN JStr("valid") ELSE auth_token

\* Role_based.py:283 and 294-305; tokens_dict is the suite's "tokens" map
BuildHeaders(file_headers, case_headers, auth_token, all_tokens, tokens_dict) ==
  LET headers == Merge(Merge(file_headers, case_headers), AcceptJson)
      token_key == TokenKeyOf(auth_token)
  IN IF token_key # None /\ token_key.s \in DOMAIN all_tokens
     THEN Put(Put(headers, "Authorization", Bearer(all_tokens[token_key.s].access_token)),
              "X-ID-Token", all_tokens[token_key.s].id_token)
     ELSE IF token_key = JStr("empty")
     THEN Pop(Pop(headers, "Authorization"), "X-ID-Token")
     ELSE LET name == IF token_key = None THEN "None" ELSE token_key.s
              literal == IF token_key # None /\ token_key.s \in DOMAIN tokens_dict
                         THEN tokens_dict[token_key.s] ELSE <<>>
          IN Put(Put(headers, "Authorization", Bearer(literal)),
                 "X-ID-Token", deterministic_dummy_id_token(name))

\* new.py:159 and 171-176
BuildHeadersNew(file_headers, case_headers, auth_token, tokens_dict) ==
  LET headers == Merge(Merge(file_headers, case_headers), AcceptJson)
      token_key == TokenKeyOf(auth_token)
      token_value == IF token_key # None /\ token_key.s \in DOMAIN tokens_dict
                     THEN tokens_dict[token_key.s] ELSE <<>>
  IN IF token_value # <<>>
     THEN Put(headers, "Authorization", Bearer(token_value))
     ELSE IF token_key = None \/ token_key = JStr("empty")
     THEN Pop(headers, "Authorization")
     ELSE headers

(***************************************************************************)
(* The run's inputs                                                        *)
(***************************************************************************)
MAX_RETRIES == 2

GLOBAL_PERF_THRESHOLD_MS == 1500

MaxFiles == 2

\* the number of cases of a run, over all its files
MaxCases == 2

FileStatus == {"ok", "malformed", "unreadable"}

\* a discovered file: whether it loads, and the length of its test_cases
FileShapes ==
  [status : {"ok"}, ncases : 0..MaxCases] \cup [status : {"malformed", "unreadable"}, ncases : {0}]

RECURSIVE SumCases(_)
SumCases(fs) == IF fs = <<>> THEN 0 ELSE Head(fs).ncases + SumCases(Tail(fs))

FileLayouts == {fs \in [1..MaxFiles -> FileShapes] : SumCases(fs) <= MaxCases}

\* LOGIN_USER_* / LOGIN_PASS_* present per role, whether the login 2xx with a JSON token set
\* endpoint answers 2xx with a JSON token set, and ALLOW_PARTIAL_MESSAGE_MATCH
Envs ==
  { [creds |-> Roles, loginUp |-> TRUE, partial |-> FALSE],
    [creds |-> {"admin", "branch"}, loginUp |-> FALSE, partial |-> TRUE] }

\* file-level members of a suite document
FileCfgs ==
  { [base_url |-> <<"https://api.x">>, headers |-> NoHeaders, tokens |-> NoHeaders],
    [base_url |-> <<>>,
     headers |-> [k \in {"Authorization"} |-> <<"suite-secret">>],
     tokens |-> [k \in {"expired", "empty"} |-> <<"tok-", k>>]] }

CaseDefaults ==
  [ method |-> Absent, endpoint |-> Absent, api_endpoint |-> Absent, headers |-> NoHeaders,
    auth_token |-> Absent, expected_status |-> Absent, expected_response |-> Absent,
    nested_keys |-> <<>>, content |-> None, type |-> "", expected_content_type |-> Absent ]

\* the test cases a suite may hold
RunCases ==
  { [CaseDefaults EXCEPT !.endpoint = JStr(<<"/ping">>), !.expected_status = JInt(200)],
    [CaseDefaults EXCEPT !.method = JStr("POST"), !.endpoint = JStr(<<"/ping">>)],
    CaseDefaults,
    [CaseDefaults EXCEPT !.method = JStr("get"), !.endpoint = JStr(<<>>),
                         !.api_endpoint = JStr(<<"/ping">>), !.auth_token = JStr("empty"),
                         !.expected_response = MkDict({<<"status", JStr(<<"a">>)>>})],
    [CaseDefaults EXCEPT !.endpoint = JStr(<<"/ping">>), !.auth_token = JStr("expired"),
                         !.headers = [k \in {"X-Trace"} |-> <<"t1">>],
                         !.expected_status = JInt(404)] }

\* what the service may answer; body is None when it does not parse as JSON
RunResponses ==
  { [status_code |-> 200, body |-> MkDict({<<"status", JStr(<<"a">>)>>}),
     headers |-> [k \in {"content-type"} |-> <<"application/json">>], elapsed_ms |-> 120],
    [status_code |-> 200, body |-> MkDict({<<"status", JStr(<<"A">>)>>}),
     headers |-> [k \in {"content-type"} |-> <<"application/json", "; charset=utf-8">>],
     elapsed_ms |-> 1800],
    [status_code |-> 404, body |-> None,
     headers |-> [k \in {"content-type"} |-> <<"application/json">>], elapsed_ms |-> 120] }

(***************************************************************************)
(* Role_based.py: token pre-fetch, run_all_tests, __main__                 *)
(***************************************************************************)
\* Role_based.py:82-105: whether the login endpoint is called, and the tokens returned
get_tokens_from_api(role, e) ==
  IF role \notin e.creds
  THEN [called |-> FALSE, tokens |-> EmptyTokens]
  ELSE [called |-> TRUE, tokens |-> IF e.loginUp THEN IssuedTokens(role) ELSE EmptyTokens]

\* truth value of a JSON member read with .get(): absent, null, "", 0, {} and [] are falsy
Truthy(v) ==
  CASE v = Absent -> FALSE
    [] v.t = "null" -> FALSE
    [] v.t = "str" -> v.s # <<>>
    [] v.t = "int" -> v.n # 0
    [] v.t = "bool" -> v.b
    [] v.t = "list" -> v.items # <<>>
    [] v.t = "dict" -> DOMAIN v.f # {}

\* case.get(k): None when the member is absent
GetOrNone(v) == IF v = Absent THEN None ELSE v

\* a or b
PyOr(a, b) == IF Truthy(a) THEN a ELSE b

\* str.upper() of a method name
UpperMethod ==
  [m \in {"get", "GET", "post", "POST"} |-> IF m \in {"get", "GET"} THEN "GET" ELSE "POST"]

\* Role_based.py:258 / new.py:158: case.get("method", default_method).upper()
MethodOf(case, default_method) ==
  IF case.method = Absent THEN default_method ELSE UpperMethod[case.method.s]

\* Role_based.py:259 / new.py:153
EndpointOf(case) == PyOr(GetOrNone(case.endpoint), GetOrNone(case.api_endpoint))

\* response.headers.get(name): the response's header names compare case-insensitively
RespHeader(resp, name) ==
  IF LowerName[name] \in DOMAIN resp.headers THEN resp.headers[LowerName[name]] ELSE <<>>

RespHeadersByName(resp, names) ==
  [k \in {n \in names : LowerName[n] \in DOMAIN resp.headers} |-> resp.headers[LowerName[k]]]

\* Role_based.py:319-324: the parsed body, {} when it does not parse
RespJson(resp) == IF resp.body = None THEN EmptyDict ELSE resp.body

\* Role_based.py:326-354: the verdict on one response
CaseVerdict(case, resp, file_headers, partial) ==
  LET expected_status == GetOrNone(case.expected_status)
      status_errors ==
        IF Truthy(expected_status) /\ JInt(resp.status_code) # expected_status
        THEN << <<"Expected status", expected_status, resp.status_code>> >>
        ELSE <<>>
      expected_resp == GetOrNone(case.expected_response)
      body ==
        IF Truthy(expected_resp) \/ case.nested_keys # <<>>
        THEN validate_response_simple(RespJson(resp),
                                      IF Truthy(expected_resp) THEN expected_resp ELSE EmptyDict,
                                      case.content, case.type, case.nested_keys, partial)
        ELSE [ok |-> TRUE, errors |-> <<>>]
      hdr == validate_headers(RespHeadersByName(resp, DOMAIN file_headers), file_headers)
      header_errors == IF hdr.ok THEN <<>> ELSE << <<"Header errors", hdr.errors>> >>
      ct_expected == IF case.expected_content_type = Absent
                     THEN <<"application/json">> ELSE case.expected_content_type.s
      ct == RespHeader(resp, "Content-Type")
      ct_errors == IF ct # <<>> /\ ~Contains(ct_expected, ct)
                   THEN << <<"Expected Content-Type", ct_expected, ct>> >>
                   ELSE <<>>
      errors == status_errors \o body.errors \o header_errors \o ct_errors
  IN [test_passed |-> errors = <<>>, errors |-> errors]

NoTokens == [k \in {} |-> EmptyTokens]

NoCalls == [r \in Roles |-> 0]

NoCase == [t |-> "no case"]

Init ==
  /\ variant \in {"role_based", "new"}
  /\ env \in IF variant = "role_based" THEN Envs
             ELSE {[creds |-> {}, loginUp |-> FALSE, partial |-> FALSE]}
  /\ files \in FileLayouts
  /\ pc = "import"
  /\ ALL_TOKENS = NoTokens
  /\ loginCalls = NoCalls
  /\ prefetched = 0
  /\ fileIdx = 0
  /\ caseIdx = 0
  /\ fileCfg = <<>>
  /\ cur = <<>>
  /\ attempt = 0
  /\ SUMMARY = [total |-> 0, passed |-> 0, failed |-> 0, skipped |-> 0]
  /\ results = <<>>
  /\ slow_tests = <<>>
  /\ PERF_STATS = <<>>
  /\ lastHttp = "none"
  /\ lastAttempt = 0
  /\ lastCase = NoCase
  /\ pytestReport = <<>>
  /\ exitCode = -1
  /\ fnIn = <<>>
  /\ fnOut = <<>>

\* Role_based.py:226-227, one iteration of the pre-fetch loop
PrefetchToken ==
  /\ variant = "role_based"
  /\ pc = "import"
  /\ prefetched < Len(role_map)
  /\ LET key == role_map[prefetched + 1][1]
         role == role_map[prefetched + 1][2]
         got == get_tokens_from_api(role, env)
     IN /\ ALL_TOKENS' = [k \in DOMAIN ALL_TOKENS \cup {key} |->
                            IF k = key THEN got.tokens ELSE ALL_TOKENS[k]]
        /\ loginCalls' = IF got.called
                         THEN [loginCalls EXCEPT ![role] = @ + 1]
                         ELSE loginCalls
  /\ prefetched' = prefetched + 1
  /\ lastHttp' = "none"
  /\ lastAttempt' = 0
  /\ lastCase' = NoCase
  /\ UNCHANGED <<variant, pc, files, env, fileIdx, caseIdx, fileCfg, cur, attempt, SUMMARY,
                 results, slow_tests, PERF_STATS, pytestReport, exitCode,
                 fnIn, fnOut>>

\* Role_based.py:520-521 and 236-238: __main__ enters run_all_tests
StartRun ==
  /\ variant = "role_based"
  /\ pc = "import"
  /\ prefetched = Len(role_map)
  /\ pc' = "files"
  /\ lastHttp' = "none"
  /\ lastAttempt' = 0
  /\ lastCase' = NoCase
  /\ UNCHANGED <<variant, files, env, ALL_TOKENS, loginCalls, prefetched, fileIdx, caseIdx,
                 fileCfg, cur, attempt, SUMMARY, results, slow_tests, PERF_STATS,
                 pytestReport, exitCode, fnIn, fnOut>>

\* Role_based.py:240-247: a file that does not load is logged and passed over
LoadFileFails ==
  /\ variant = "role_based"
  /\ pc = "files"
  /\ fileIdx < Len(files)
  /\ files[fileIdx + 1].status # "ok"
  /\ fileIdx' = fileIdx + 1
  /\ lastHttp' = "none"
  /\ lastAttempt' = 0
  /\ lastCase' = NoCase
  /\ UNCHANGED <<variant, pc, files, env, ALL_TOKENS, loginCalls, prefetched, caseIdx,
                 fileCfg, cur, attempt, SUMMARY, results, slow_tests, PERF_STATS,
                 pytestReport, exitCode, fnIn, fnOut>>

\* Role_based.py:240-252: a file loads; its file-level members are read
LoadFile ==
  /\ variant = "role_based"
  /\ pc = "files"
  /\ fileIdx < Len(files)
  /\ files[fileIdx + 1].status = "ok"
  /\ fileIdx' = fileIdx + 1
  /\ fileCfg' \in FileCfgs
  /\ caseIdx' = 0
  /\ pc' = "cases"
  /\ lastHttp' = "none"
  /\ lastAttempt' = 0
  /\ lastCase' = NoCase
  /\ UNCHANGED <<variant, files, env, ALL_TOKENS, loginCalls, prefetched, cur, attempt,
                 SUMMARY, results, slow_tests, PERF_STATS, pytestReport,
                 exitCode, fnIn, fnOut>>

\* Role_based.py:254: the loop over test_cases is exhausted
EndOfFile ==
  /\ variant = "role_based"
  /\ pc = "cases"
  /\ caseIdx = files[fileIdx].ncases
  /\ pc' = "files"
  /\ fileCfg' = <<>>
  /\ lastHttp' = "none"
  /\ lastAttempt' = 0
  /\ lastCase' = NoCase
  /\ UNCHANGED <<variant, files, env, ALL_TOKENS, loginCalls, prefetched, fileIdx, caseIdx,
                 cur, attempt, SUMMARY, results, slow_tests, PERF_STATS, pytestReport, exitCode, fnIn, fnOut>>

\* Role_based.py:255: test_id defaults to f"{json_file.stem}_{idx:03d}"
TestId(f, idx) == <<f, idx>>

\* a faulty variant of CountSkipped: the skip is counted as a failure
CountSkippedAsFailed(summary) == [summary EXCEPT !.failed = @ + 1]

\* Role_based.py:266 / 276 / new.py:155
CountSkipped(summary) == [summary EXCEPT !.skipped = @ + 1]

\* Role_based.py:262 / new.py:151
CountTotal(summary) == [summary EXCEPT !.total = @ + 1]

\* Role_based.py:264-272
SkipNonGet ==
  /\ variant = "role_based"
  /\ pc = "cases"
  /\ caseIdx < files[fileIdx].ncases
  /\ \E case \in RunCases :
       LET method == MethodOf(case, "GET")
           endpoint == EndpointOf(case)
       IN /\ method # "GET"
          /\ lastCase' = case
          /\ results' = Append(results,
               [ id |-> TestId(fileIdx, caseIdx + 1), status_code |-> JStr("-"),
                 result |-> "SKIPPED", details |-> [kind |-> "non-GET", method |-> method],
                 api_name |-> <<method, endpoint>>, method |-> method,
                 endpoint |-> endpoint ])
  /\ SUMMARY' = CountSkipped(CountTotal(SUMMARY))
  /\ caseIdx' = caseIdx + 1
  /\ lastHttp' = "none"
  /\ lastAttempt' = 0
  /\ UNCHANGED <<variant, pc, files, env, ALL_TOKENS, loginCalls, prefetched, fileIdx,
                 fileCfg, cur, attempt, slow_tests, PERF_STATS, pytestReport,
                 exitCode, fnIn, fnOut>>

\* Role_based.py:274-281
SkipMissingEndpoint ==
  /\ variant = "role_based"
  /\ pc = "cases"
  /\ caseIdx < files[fileIdx].ncases
  /\ \E case \in RunCases :
       /\ MethodOf(case, "GET") = "GET"
       /\ ~Truthy(EndpointOf(case))
       /\ lastCase' = case
  /\ results' = Append(results,
       [ id |-> TestId(fileIdx, caseIdx + 1), status_code |-> JStr("-"),
         result |-> "SKIPPED", details |-> [kind |-> "Missing endpoint"],
         api_name |-> <<"Unknown">>, method |-> "", endpoint |-> JStr(<<>>) ])
  /\ SUMMARY' = CountSkipped(CountTotal(SUMMARY))
  /\ caseIdx' = caseIdx + 1
  /\ lastHttp' = "none"
  /\ lastAttempt' = 0
  /\ UNCHANGED <<variant, pc, files, env, ALL_TOKENS, loginCalls, prefetched, fileIdx,
                 fileCfg, cur, attempt, slow_tests, PERF_STATS, pytestReport,
                 exitCode, fnIn, fnOut>>

\* Role_based.py:262 and 283-310: the case is counted, its request resolved
\* (the endpoints drawn hold no {placeholder}), and the retry loop entered
StartCase ==
  /\ variant = "role_based"
  /\ pc = "cases"
  /\ caseIdx < files[fileIdx].ncases
  /\ \E case \in RunCases :
       /\ MethodOf(case, "GET") = "GET"
       /\ Truthy(EndpointOf(case))
       /\ cur' = [ id |-> TestId(fileIdx, caseIdx + 1), case |-> case,
                   method |-> "GET", endpoint |-> EndpointOf(case),
                   url |-> fileCfg.base_url \o EndpointOf(case).s,
                   headers |-> BuildHeaders(fileCfg.headers, case.headers, case.auth_token,
                                            ALL_TOKENS, fileCfg.tokens),
                   sent |-> 0 ]
       /\ lastCase' = case
  /\ SUMMARY' = CountTotal(SUMMARY)
  /\ caseIdx' = caseIdx + 1
  /\ attempt' = 0
  /\ pc' = "attempt"
  /\ lastHttp' = "none"
  /\ lastAttempt' = 0
  /\ UNCHANGED <<variant, files, env, ALL_TOKENS, loginCalls, prefetched, fileIdx, fileCfg,
                 results, slow_tests, PERF_STATS, pytestReport, exitCode,
                 fnIn, fnOut>>

\* a faulty variant of RetryExhausted: one attempt fewer
RetryExhaustedEarly(a) == a >= MAX_RETRIES

\* Role_based.py:405 (and the loop guard of line 311 after the increment)
RetryExhausted(a) == a > MAX_RETRIES

\* a faulty variant of PerfAfterAttempt: a sample on every attempt
PerfAlsoOnError(perf, outcome, elapsed_ms) == Append(perf, elapsed_ms)

\* Role_based.py:316 on a response, nothing on the except path of 402-418
PerfAfterAttempt(perf, outcome, elapsed_ms) ==
  IF outcome = "response" THEN Append(perf, elapsed_ms) ELSE perf

\* html.escape(s)
HtmlEscape(s) ==
  [ i \in 1..Len(s) |->
      CASE s[i] = "<" -> "&lt;" [] s[i] = ">" -> "&gt;" [] s[i] = "&" -> "&amp;"
        [] s[i] = "\"" -> "&quot;" [] s[i] = "'" -> "&#x27;" [] OTHER -> s[i] ]

\* str(e) of the RequestException a failed attempt raises
ExceptionText == <<"Max retries exceeded: ", "<", "NewConnectionError", ">">>

\* a faulty variant of ResultsAfterError: a result on every failed attempt
ResultsAfterEveryError(res, exhausted, rec) == Append(res, rec)

\* Role_based.py:405-416: the FAIL result is appended once the retries are exhausted
ResultsAfterError(res, exhausted, rec) == IF exhausted THEN Append(res, rec) ELSE res

\* a faulty variant of CountVerdict: every answered case counts as passed
CountVerdictPassedOnly(summary, test_passed) == [summary EXCEPT !.passed = @ + 1]

\* Role_based.py:395-398
CountVerdict(summary, test_passed) ==
  IF test_passed THEN [summary EXCEPT !.passed = @ + 1] ELSE [summary EXCEPT !.failed = @ + 1]

\* Role_based.py:312-400: requests.get returns a response, which is validated
\* and recorded; the loop is left
AttemptResponse ==
  /\ variant = "role_based"
  /\ pc = "attempt"
  /\ attempt <= MAX_RETRIES
  /\ \E resp \in RunResponses :
       LET verdict == CaseVerdict(cur.case, resp, fileCfg.headers, env.partial)
       IN /\ PERF_STATS' = PerfAfterAttempt(PERF_STATS, "response", resp.elapsed_ms)
          /\ results' = Append(results,
               [ id |-> cur.id, status_code |-> JInt(resp.status_code),
                 result |-> IF verdict.test_passed THEN "PASS" ELSE "FAIL",
                 details |-> [ kind |-> "response", url |-> cur.url,
                               headers |-> redact_headers(cur.headers),
                               status |-> resp.status_code, time |-> resp.elapsed_ms,
                               errors |-> verdict.errors, passed |-> verdict.test_passed ],
                 api_name |-> <<cur.method, cur.endpoint>>, method |-> cur.method,
                 endpoint |-> cur.endpoint ])
          /\ slow_tests' = IF resp.elapsed_ms > GLOBAL_PERF_THRESHOLD_MS
                           THEN Append(slow_tests, cur.id) ELSE slow_tests
          /\ SUMMARY' = CountVerdict(SUMMARY, verdict.test_passed)
  /\ lastHttp' = "response"
  /\ lastAttempt' = attempt
  /\ lastCase' = NoCase
  /\ pc' = "cases"
  /\ cur' = <<>>
  /\ attempt' = 0
  /\ UNCHANGED <<variant, files, env, ALL_TOKENS, loginCalls, prefetched, fileIdx, caseIdx,
                 fileCfg, pytestReport, exitCode, fnIn, fnOut>>

\* Role_based.py:312-314 and 402-418: requests.get raises RequestException
AttemptTransportError ==
  /\ variant = "role_based"
  /\ pc = "attempt"
  /\ attempt <= MAX_RETRIES
  /\ lastHttp' = "error"
  /\ lastAttempt' = attempt
  /\ lastCase' = NoCase
  /\ PERF_STATS' = PerfAfterAttempt(PERF_STATS, "error", 0)
  /\ results' = ResultsAfterError(results, RetryExhausted(attempt + 1),
       [ id |-> cur.id, status_code |-> JStr("ERROR"), result |-> "FAIL",
         details |-> [kind |-> "exception", text |-> HtmlEscape(ExceptionText)],
         api_name |-> <<cur.method, cur.endpoint>>, method |-> cur.method,
         endpoint |-> cur.endpoint ])
  /\ IF RetryExhausted(attempt + 1)
     THEN /\ SUMMARY' = [SUMMARY EXCEPT !.failed = @ + 1]
          /\ pc' = "cases"
          /\ cur' = <<>>
          /\ attempt' = 0
     ELSE /\ attempt' = attempt + 1
          /\ cur' = [cur EXCEPT !.sent = @ + 1]
          /\ UNCHANGED <<SUMMARY, pc>>
  /\ UNCHANGED <<variant, files, env, ALL_TOKENS, loginCalls, prefetched, fileIdx, caseIdx,
                 fileCfg, slow_tests, pytestReport, exitCode, fnIn, fnOut>>

\* Role_based.py:240 and 420-425: no file is left; run_all_tests returns
Finish ==
  /\ variant = "role_based"
  /\ pc = "files"
  /\ fileIdx = Len(files)
  /\ pc' = "done"
  /\ lastHttp' = "none"
  /\ lastAttempt' = 0
  /\ lastCase' = NoCase
  /\ UNCHANGED <<variant, files, env, ALL_TOKENS, loginCalls, prefetched, fileIdx, caseIdx,
                 fileCfg, cur, attempt, SUMMARY, results, slow_tests, PERF_STATS,
                 pytestReport, exitCode, fnIn, fnOut>>

\* a faulty variant of ExitStatus: skips count
ExitStatusCountingSkips(summary) == IF summary.failed + summary.skipped > 0 THEN 1 ELSE 0

\* Role_based.py:530
ExitStatus(summary) == IF summary.failed > 0 THEN 1 ELSE 0

\* Role_based.py:522-530: the report is written and the process exits
Exit ==
  /\ variant = "role_based"
  /\ pc = "done"
  /\ exitCode' = ExitStatus(SUMMARY)
  /\ pc' = "exited"
  /\ lastHttp' = "none"
  /\ lastAttempt' = 0
  /\ lastCase' = NoCase
  /\ UNCHANGED <<variant, files, env, ALL_TOKENS, loginCalls, prefetched, fileIdx, caseIdx,
                 fileCfg, cur, attempt, SUMMARY, results, slow_tests, PERF_STATS,
                 pytestReport, fnIn, fnOut>>

RoleBasedNext ==
  \/ PrefetchToken
  \/ StartRun
  \/ LoadFileFails
  \/ LoadFile
  \/ EndOfFile
  \/ SkipNonGet
  \/ SkipMissingEndpoint
  \/ StartCase
  \/ AttemptResponse
  \/ AttemptTransportError
  \/ Finish
  \/ Exit

(***************************************************************************)
(* new.py: validate_schema, validate_response                              *)
(***************************************************************************)
\* the characters of the member names used here
KeyText ==
  [ k \in {"status", "message", "data", "id", "name", "n", "x", "farmer_full_name"} |->
      CASE k = "status" -> <<"s", "t", "a", "t", "u", "s">>
        [] k = "message" -> <<"m", "e", "s", "s", "a", "g", "e">>
        [] k = "data" -> <<"d", "a", "t", "a">>
        [] k = "id" -> <<"i", "d">>
        [] k = "name" -> <<"n", "a", "m", "e">>
        [] k = "n" -> <<"n">>
        [] k = "x" -> <<"x">>
        [] k = "farmer_full_name" -> <<"f", "a", "r", "m", "e", "r", "_", "f", "u", "l", "l",
                                       "_", "n", "a", "m", "e">> ]

\* the order in which the members of a dict are visited
KeyOrder == <<"status", "message", "data", "id", "name", "n", "x", "farmer_full_name">>

\* json.dumps(v) with the default separators
RECURSIVE JsonDumps(_)
RECURSIVE DumpItems(_)
RECURSIVE DumpMembers(_, _, _)
JsonDumps(v) ==
  CASE v.t = "str" -> <<"\"">> \o v.s \o <<"\"">>
    [] v.t = "int" -> PyStr(v)
    [] v.t = "bool" -> IF v.b THEN <<"t", "r", "u", "e">> ELSE <<"f", "a", "l", "s", "e">>
    [] v.t = "null" -> <<"n", "u", "l", "l">>
    [] v.t = "list" -> <<"[">> \o DumpItems(v.items) \o <<"]">>
    [] v.t = "dict" -> <<"{">> \o DumpMembers(v.f, KeyOrder, TRUE) \o <<"}">>

DumpItems(items) ==
  IF items = <<>> THEN <<>>
  ELSE JsonDumps(Head(items))
       \o (IF Tail(items) = <<>> THEN <<>> ELSE <<",", " ">> \o DumpItems(Tail(items)))

DumpMembers(f, order, first) ==
  IF order = <<>> THEN <<>>
  ELSE IF Head(order) \in DOMAIN f
       THEN (IF first THEN <<>> ELSE <<",", " ">>)
            \o <<"\"">> \o KeyText[Head(order)] \o <<"\"", ":", " ">> \o JsonDumps(f[Head(order)])
            \o DumpMembers(f, Tail(order), FALSE)
       ELSE DumpMembers(f, Tail(order), first)

\* new.py:73-80 with jsonschema.validate, for schemas of the form
\* {"required": [names]}: an instance that is no object conforms
SchemaConforms(resp_json, schema) ==
  \/ ~IsDict(resp_json)
  \/ ~HasKey(schema, "required")
  \/ \A i \in 1..Len(schema.f["required"].items) :
        schema.f["required"].items[i].s \in DOMAIN resp_json.f

\* new.py:113: `field not in data_dict`; "raise" is the TypeError of a
\* container test on null, a number or a boolean
FieldMissing(field, data_dict) ==
  CASE data_dict.t = "dict" -> IF field.s \in DOMAIN data_dict.f THEN "no" ELSE "yes"
    [] data_dict.t = "list" ->
         IF \E i \in 1..Len(data_dict.items) : data_dict.items[i] = field THEN "no" ELSE "yes"
    [] data_dict.t = "str" -> IF Contains(KeyText[field.s], data_dict.s) THEN "no" ELSE "yes"
    [] OTHER -> "raise"

RECURSIVE MandatoryErrors(_, _)
MandatoryErrors(fields, data_dict) ==
  IF fields = <<>> THEN <<>>
  ELSE (IF FieldMissing(Head(fields), data_dict) = "yes"
        THEN << <<"Missing mandatory field", Head(fields).s>> >> ELSE <<>>)
       \o MandatoryErrors(Tail(fields), data_dict)

\* new.py:118-125, one member of field_types
FieldTypeError(k, v_type, data_dict) ==
  LET value == Get(data_dict, k, None)
  IN IF \/ v_type \in {"string", "null|string"} /\ value # None /\ value.t # "str"
        \/ v_type = "boolean" /\ value.t # "bool"
     THEN << <<"Field type", k, v_type, value.t>> >>
     ELSE <<>>

RECURSIVE FieldTypeErrors(_, _, _)
FieldTypeErrors(field_types, order, data_dict) ==
  IF order = <<>> THEN <<>>
  ELSE (IF Head(order) \in DOMAIN field_types
        THEN FieldTypeError(Head(order), field_types[Head(order)], data_dict) ELSE <<>>)
       \o FieldTypeErrors(field_types, Tail(order), data_dict)

\* new.py:101-138, one candidate: "match", "nomatch" with its discrepancies,
\* "assert" (validate_schema's AssertionError) or "raise" (another exception)
Candidate(resp_json, expected_response) ==
  IF IsDict(expected_response)
  THEN IF ~IsDict(resp_json) THEN [kind |-> "raise", errors |-> <<>>]
       ELSE LET data_dict == Get(resp_json, "data", EmptyDict)
                mandatory_fields == Get(expected_response, "mandatory_fields", JList(<<>>)).items
                field_types == Get(expected_response, "field_types", EmptyDict).f
                temp_errors == MandatoryErrors(mandatory_fields, data_dict)
                               \o FieldTypeErrors(field_types, KeyOrder, data_dict)
            IN IF HasKey(expected_response, "schema")
                  /\ ~SchemaConforms(resp_json, expected_response.f["schema"])
               THEN [kind |-> "assert", errors |-> << <<"Schema validation failed">> >>]
               ELSE IF \/ \E i \in 1..Len(mandatory_fields) :
                             FieldMissing(mandatory_fields[i], data_dict) = "raise"
                       \/ DOMAIN field_types # {} /\ ~IsDict(data_dict)
               THEN [kind |-> "raise", errors |-> <<>>]
               ELSE IF temp_errors = <<>>
               THEN [kind |-> "match", errors |-> <<>>]
               ELSE [kind |-> "nomatch", errors |-> temp_errors]
  ELSE IF expected_response.t = "str"
  THEN IF Contains(expected_response.s, JsonDumps(resp_json))
       THEN [kind |-> "match", errors |-> <<>>]
       ELSE [kind |-> "nomatch",
             errors |-> << <<"Expected message not found", expected_response.s>> >>]
  ELSE [kind |-> "nomatch", errors |-> <<>>]

RECURSIVE Candidates(_, _, _)
Candidates(resp_json, options, errors) ==
  IF options = <<>> THEN [kind |-> "assert", errors |-> errors]
  ELSE LET r == Candidate(resp_json, Head(options))
       IN CASE r.kind = "match" -> [kind |-> "pass", errors |-> <<>>]
            [] r.kind = "nomatch" -> Candidates(resp_json, Tail(options), errors \o r.errors)
            [] OTHER -> r

\* new.py:85-140: "pass", "assert" (an AssertionError) or "raise"
validate_response(resp_json, expected_response_options) ==
  Candidates(resp_json,
             IF IsList(expected_response_options) THEN expected_response_options.items
             ELSE <<expected_response_options>>,
             <<>>)

(***************************************************************************)
(* new.py under pytest: load_json_files at import, then one run of         *)
(* test_api_from_json per loaded file                                      *)
(***************************************************************************)
\* new.py:44-56: open() is outside the try, so a file that cannot be read
\* ends the import (pytest reports a collection error and runs nothing); a
\* file that is no JSON document is left out of all_json_data
NewImport ==
  /\ variant = "new"
  /\ pc = "import"
  /\ IF \E f \in 1..Len(files) : files[f].status = "unreadable"
     THEN pc' = "done" /\ pytestReport' = <<[file |-> 0, outcome |-> "collection error"]>>
     ELSE pc' = "files" /\ UNCHANGED pytestReport
  /\ lastHttp' = "none"
  /\ lastAttempt' = 0
  /\ lastCase' = NoCase
  /\ UNCHANGED <<variant, files, env, ALL_TOKENS, loginCalls, prefetched, fileIdx, caseIdx,
                 fileCfg, cur, attempt, SUMMARY, results, slow_tests, PERF_STATS,
                 exitCode, fnIn, fnOut>>

\* new.py:52-53 and 145: a malformed file yields no parametrized test
NewSkipFile ==
  /\ variant = "new"
  /\ pc = "files"
  /\ fileIdx < Len(files)
  /\ files[fileIdx + 1].status # "ok"
  /\ fileIdx' = fileIdx + 1
  /\ lastHttp' = "none"
  /\ lastAttempt' = 0
  /\ lastCase' = NoCase
  /\ UNCHANGED <<variant, pc, files, env, ALL_TOKENS, loginCalls, prefetched, caseIdx,
                 fileCfg, cur, attempt, SUMMARY, results, slow_tests, PERF_STATS,
                 pytestReport, exitCode, fnIn, fnOut>>

\* new.py:146-148: the test of a loaded file starts; without base_url its
\* assertion fails the test
NewStartFile ==
  /\ variant = "new"
  /\ pc = "files"
  /\ fileIdx < Len(files)
  /\ files[fileIdx + 1].status = "ok"
  /\ fileIdx' = fileIdx + 1
  /\ caseIdx' = 0
  /\ \E cfg \in FileCfgs :
       IF cfg.base_url = <<>>
       THEN /\ pytestReport' = Append(pytestReport, [file |-> fileIdx + 1, outcome |-> "failed"])
            /\ UNCHANGED <<pc, fileCfg>>
       ELSE /\ fileCfg' = cfg
            /\ pc' = "cases"
            /\ UNCHANGED pytestReport
  /\ lastHttp' = "none"
  /\ lastAttempt' = 0
  /\ lastCase' = NoCase
  /\ UNCHANGED <<variant, files, env, ALL_TOKENS, loginCalls, prefetched, cur, attempt,
                 SUMMARY, results, slow_tests, PERF_STATS, exitCode, fnIn, fnOut>>

\* new.py:150: the loop is exhausted, the test returns and pytest records it passed
NewEndOfFile ==
  /\ variant = "new"
  /\ pc = "cases"
  /\ caseIdx = files[fileIdx].ncases
  /\ pytestReport' = Append(pytestReport, [file |-> fileIdx, outcome |-> "passed"])
  /\ pc' = "files"
  /\ fileCfg' = <<>>
  /\ lastHttp' = "none"
  /\ lastAttempt' = 0
  /\ lastCase' = NoCase
  /\ UNCHANGED <<variant, files, env, ALL_TOKENS, loginCalls, prefetched, fileIdx, caseIdx,
                 cur, attempt, SUMMARY, results, slow_tests, PERF_STATS, exitCode, fnIn, fnOut>>

\* new.py:151-156: pytest.skip raises; pytest records the file's test
\* skipped and the cases after this one are not reached
NewSkipCase ==
  /\ variant = "new"
  /\ pc = "cases"
  /\ caseIdx < files[fileIdx].ncases
  /\ \E case \in RunCases : ~Truthy(EndpointOf(case)) /\ lastCase' = case
  /\ SUMMARY' = CountSkipped(CountTotal(SUMMARY))
  /\ caseIdx' = caseIdx + 1
  /\ pytestReport' = Append(pytestReport, [file |-> fileIdx, outcome |-> "skipped"])
  /\ pc' = "files"
  /\ fileCfg' = <<>>
  /\ lastHttp' = "none"
  /\ lastAttempt' = 0
  /\ UNCHANGED <<variant, files, env, ALL_TOKENS, loginCalls, prefetched, fileIdx, cur,
                 attempt, results, slow_tests, PERF_STATS, exitCode, fnIn, fnOut>>

\* new.py:151-186: requests.request raises; the exception leaves the test,
\* which pytest records failed
NewCaseTransportError ==
  /\ variant = "new"
  /\ pc = "cases"
  /\ caseIdx < files[fileIdx].ncases
  /\ \E case \in RunCases : Truthy(EndpointOf(case)) /\ lastCase' = case
  /\ SUMMARY' = CountTotal(SUMMARY)
  /\ caseIdx' = caseIdx + 1
  /\ lastHttp' = "error"
  /\ lastAttempt' = 0
  /\ pytestReport' = Append(pytestReport, [file |-> fileIdx, outcome |-> "failed"])
  /\ pc' = "files"
  /\ fileCfg' = <<>>
  /\ UNCHANGED <<variant, files, env, ALL_TOKENS, loginCalls, prefetched, fileIdx, cur,
                 attempt, results, slow_tests, PERF_STATS, exitCode, fnIn, fnOut>>

\* new.py:196-204: the assertions on one response
NewVerdict(case, resp) ==
  LET expected_status == GetOrNone(case.expected_status)
      expected_response == GetOrNone(case.expected_response)
  IN IF Truthy(expected_status) /\ JInt(resp.status_code) # expected_status
     THEN "assert"
     ELSE IF Truthy(expected_response)
     THEN validate_response(RespJson(resp), expected_response).kind
     ELSE "pass"

\* new.py:151-206: the request is answered; the case passes, or an
\* assertion (or another exception) leaves the test, which pytest records failed
NewCaseResponse ==
  /\ variant = "new"
  /\ pc = "cases"
  /\ caseIdx < files[fileIdx].ncases
  /\ \E case \in RunCases, resp \in RunResponses :
       /\ Truthy(EndpointOf(case))
       /\ lastCase' = case
       /\ PERF_STATS' = Append(PERF_STATS,
            <<TestId(fileIdx, caseIdx + 1), resp.elapsed_ms,
              fileCfg.base_url \o EndpointOf(case).s>>)
       /\ IF NewVerdict(case, resp) = "pass"
          THEN /\ SUMMARY' = [CountTotal(SUMMARY) EXCEPT !.passed = @ + 1]
               /\ UNCHANGED <<pytestReport, pc, fileCfg>>
          ELSE /\ SUMMARY' = CountTotal(SUMMARY)
               /\ pytestReport' = Append(pytestReport, [file |-> fileIdx, outcome |-> "failed"])
               /\ pc' = "files"
               /\ fileCfg' = <<>>
  /\ caseIdx' = caseIdx + 1
  /\ lastHttp' = "response"
  /\ lastAttempt' = 0
  /\ UNCHANGED <<variant, files, env, ALL_TOKENS, loginCalls, prefetched, fileIdx, cur,
                 attempt, results, slow_tests, exitCode, fnIn, fnOut>>

\* every parametrized test has run
NewFinish ==
  /\ variant = "new"
  /\ pc = "files"
  /\ fileIdx = Len(files)
  /\ pc' = "done"
  /\ lastHttp' = "none"
  /\ lastAttempt' = 0
  /\ lastCase' = NoCase
  /\ UNCHANGED <<variant, files, env, ALL_TOKENS, loginCalls, prefetched, fileIdx, caseIdx,
                 fileCfg, cur, attempt, SUMMARY, results, slow_tests, PERF_STATS,
                 pytestReport, exitCode, fnIn, fnOut>>

\* pytest's exit status: 2 on a collection error, 1 when a test failed,
\* 5 when no test was collected, else 0
PytestExitStatus(report) ==
  IF \E i \in 1..Len(report) : report[i].outcome = "collection error" THEN 2
  ELSE IF \E i \in 1..Len(report) : report[i].outcome = "failed" THEN 1
  ELSE IF report = <<>> THEN 5
  ELSE 0

NewExit ==
  /\ variant = "new"
  /\ pc = "done"
  /\ exitCode' = PytestExitStatus(pytestReport)
  /\ pc' = "exited"
  /\ lastHttp' = "none"
  /\ lastAttempt' = 0
  /\ lastCase' = NoCase
  /\ UNCHANGED <<variant, files, env, ALL_TOKENS, loginCalls, prefetched, fileIdx, caseIdx,
                 fileCfg, cur, attempt, SUMMARY, results, slow_tests, PERF_STATS,
                 pytestReport, fnIn, fnOut>>

Next ==
  \/ RoleBasedNext
  \/ NewImport
  \/ NewSkipFile
  \/ NewStartFile
  \/ NewEndOfFile
  \/ NewSkipCase
  \/ NewCaseTransportError
  \/ NewCaseResponse
  \/ NewFinish
  \/ NewExit

Spec == Init /\ [][Next]_vars

(***************************************************************************)
(* Bookkeeping used to state the claims                                    *)
(***************************************************************************)
RECURSIVE IdsOfFile(_, _)
IdsOfFile(f, n) == IF n = 0 THEN <<>> ELSE Append(IdsOfFile(f, n - 1), TestId(f, n))

RECURSIVE IdsUpTo(_, _)
IdsUpTo(fs, f) == IF f = 0 THEN <<>> ELSE IdsUpTo(fs, f - 1) \o IdsOfFile(f, fs[f].ncases)

\* the ids of the cases taken so far, in file-then-case order
TakenIds(fs, f, c) ==
  IF f = 0 THEN <<>>
  ELSE IdsUpTo(fs, f - 1) \o IdsOfFile(f, IF fs[f].status = "ok" THEN c ELSE 0)

IdsOf(res) == [i \in 1..Len(res) |-> res[i].id]

IsAppendOf(new, old) ==
  /\ Len(new) = Len(old) + 1
  /\ SubSeq(new, 1, Len(old)) = old

(***************************************************************************)
(* Specifications of the pure functions: Init draws the input, the action  *)
(* applies the function.  The run's variables rest.                        *)
(***************************************************************************)
RunIdle ==
  /\ variant = "none"
  /\ files = <<>>
  /\ env = <<>>
  /\ ALL_TOKENS = <<>>
  /\ loginCalls = <<>>
  /\ prefetched = 0
  /\ fileIdx = 0
  /\ caseIdx = 0
  /\ fileCfg = <<>>
  /\ cur = <<>>
  /\ attempt = 0
  /\ SUMMARY = <<>>
  /\ results = <<>>
  /\ slow_tests = <<>>
  /\ PERF_STATS = <<>>
  /\ lastHttp = "none"
  /\ lastAttempt = 0
  /\ lastCase = <<>>
  /\ pytestReport = <<>>
  /\ exitCode = -1

InitValidate ==
  /\ RunIdle
  /\ pc = "validate"
  /\ fnIn \in ValidateInputs
  /\ fnOut = <<>>

\* validate_response_simple on the same input with the toggle off and on
ApplyValidate ==
  /\ pc = "validate"
  /\ pc' = "validated"
  /\ fnOut' = [ exact |-> validate_response_simple(fnIn.resp_json, fnIn.expected_response, fnIn.content[1], fnIn.content[2], fnIn.nested_keys, FALSE),
                partial |-> validate_response_simple(fnIn.resp_json, fnIn.expected_response, fnIn.content[1], fnIn.content[2], fnIn.nested_keys, TRUE) ]
  /\ UNCHANGED <<runVarsButPc, fnIn>>

SpecValidate == InitValidate /\ [][ApplyValidate]_vars

\* ALL_TOKENS after the pre-fetch loop of Role_based.py:226-227
PrefetchedTokens(e) ==
  [ k \in TokenKeys |->
      get_tokens_from_api(role_map[CHOOSE i \in 1..Len(role_map) : role_map[i][1] = k][2], e).tokens ]

HeaderValue == <<"Bearer s3cret">>

\* the "headers" member of a suite or of a case
RequestHeaderDicts ==
  { [k \in names |-> HeaderValue] : names \in SUBSET {"Authorization", "authorization", "X-Trace"} }

\* the "tokens" member of a suite
TokenMaps == { [k \in names |-> <<"tok-", k>>] : names \in SUBSET {"empty", "expired"} }

AuthTokenChoices == {Absent, None, JStr("empty"), JStr("valid"), JStr("expired")}

InitRequest ==
  /\ RunIdle
  /\ pc = "request"
  /\ fnIn \in [ file_headers : RequestHeaderDicts, case_headers : RequestHeaderDicts,
                auth_token : AuthTokenChoices, tokens_dict : TokenMaps,
                all_tokens : {PrefetchedTokens(e) : e \in Envs} ]
  /\ fnOut = <<>>

\* the request headers each variant resolves for the same case
ApplyRequest ==
  /\ pc = "request"
  /\ pc' = "requested"
  /\ fnOut' = [ role_based |-> BuildHeaders(fnIn.file_headers, fnIn.case_headers, fnIn.auth_token, fnIn.all_tokens, fnIn.tokens_dict),
                new |-> BuildHeadersNew(fnIn.file_headers, fnIn.case_headers, fnIn.auth_token, fnIn.tokens_dict) ]
  /\ UNCHANGED <<runVarsButPc, fnIn>>

SpecRequest == InitRequest /\ [][ApplyRequest]_vars

\* request headers as a result's details show them
RedactInputs ==
  { [k \in names |-> HeaderValue] :
      names \in SUBSET {"Authorization", "authorization", "AUTHORIZATION", "Token", "X-Api-Key",
                        "X-Access-Token", "X-ID-Token", "x-id-token", "X-Trace"} }

InitRedact ==
  /\ RunIdle
  /\ pc = "redact"
  /\ fnIn \in RedactInputs
  /\ fnOut = <<>>

\* redact_headers of each variant on the same headers
ApplyRedact ==
  /\ pc = "redact"
  /\ pc' = "redacted"
  /\ fnOut' = [role_based |-> redact_headers(fnIn), new |-> redact_headers_new(fnIn)]
  /\ UNCHANGED <<runVarsButPc, fnIn>>

SpecRedact == InitRedact /\ [][ApplyRedact]_vars

\* expected_status of a case: absent, null, or an integer
ExpectedStatusChoices == {Absent, None, JInt(0), JInt(200), JInt(404), JInt(500)}

\* responses of every status class, with and without a JSON body
StatusResponses ==
  { [status_code |-> c, body |-> b,
     headers |-> [k \in {"content-type"} |-> <<"application/json">>], elapsed_ms |-> 120] :
      c \in {200, 404, 500}, b \in {None, MkDict({<<"status", JStr(<<"a">>)>>}), MkDict({})} }

InitStatus ==
  /\ RunIdle
  /\ pc = "judge"
  /\ fnIn \in [ case : { [CaseDefaults EXCEPT !.endpoint = JStr(<<"/ping">>),
                                               !.expected_status = e, !.expected_response = x] :
                           e \in ExpectedStatusChoices,
                           x \in {Absent, MkDict({<<"status", JStr(<<"a">>)>>})} },
                resp : StatusResponses ]
  /\ fnOut = <<>>

\* the verdict each variant reaches on the same case and response
ApplyStatus ==
  /\ pc = "judge"
  /\ pc' = "judged"
  /\ fnOut' = [ role_based |-> CaseVerdict(fnIn.case, fnIn.resp, NoHeaders, FALSE),
                new |-> NewVerdict(fnIn.case, fnIn.resp) ]
  /\ UNCHANGED <<runVarsButPc, fnIn>>

SpecStatus == InitStatus /\ [][ApplyStatus]_vars

\* candidates of an expected_response list: mandatory_fields, a schema,
\* field_types, and a substring
CandidateChoices ==
  { MkDict({<<"mandatory_fields", JList(<<JStr("id")>>)>>}),
    MkDict({<<"schema", MkDict({<<"required", JList(<<JStr("status")>>)>>})>>}),
    JDict([k \in {"field_types"} |-> JDict([n \in {"name"} |-> "string"])]),
    JStr(<<"a">>) }

MaxCandidates == 2

CandidateLists == UNION { [1..n -> CandidateChoices] : n \in 1..MaxCandidates }

\* parsed response bodies
CandidateBodies ==
  { MkDict({}),
    MkDict({<<"data", MkDict({<<"id", JInt(1)>>})>>}),
    MkDict({<<"status", JStr(<<"a">>)>>, <<"data", MkDict({<<"name", JInt(1)>>})>>}),
    MkDict({<<"status", JStr(<<"b">>)>>, <<"data", MkDict({<<"id", JInt(1)>>, <<"name", JStr(<<"b">>)>>})>>}),
    JList(<<>>) }

InitCandidates ==
  /\ RunIdle
  /\ pc = "match"
  /\ fnIn \in [resp_json : CandidateBodies, options : CandidateLists]
  /\ fnOut = <<>>

\* what each variant makes of an expected_response that is a list:
\* validate_response of new.py, validate_response_simple of Role_based.py
ApplyCandidates ==
  /\ pc = "match"
  /\ pc' = "matched"
  /\ fnOut' = [ new |-> validate_response(fnIn.resp_json, JList(fnIn.options)),
                role_based |-> validate_response_simple(fnIn.resp_json, JList(fnIn.options), None, "", <<>>, FALSE) ]
  /\ UNCHANGED <<runVarsButPc, fnIn>>

SpecCandidates == InitCandidates /\ [][ApplyCandidates]_vars

(***************************************************************************)
(* Role_based.py: generate_html, the grouping key of a result              *)
(***************************************************************************)
DigitChars == {"0", "1", "2", "3", "4", "5", "6", "7", "8", "9"}

\* [0-9a-fA-F-]
HexDashChars == DigitChars \cup {"a", "b", "c", "d", "e", "f", "A", "B", "C", "D", "E", "F", "-"}

\* [\w-]
WordDashChars ==
  DigitChars \cup {"_", "-"}
  \cup {"a", "b", "c", "d", "e", "f", "g", "h", "i", "j", "k", "l", "m", "n", "o", "p", "q",
        "r", "s", "t", "u", "v", "w", "x", "y", "z"}

\* the number of consecutive characters of s, from position i on, that are in class
RECURSIVE RunLen(_, _, _)
RunLen(s, i, class) ==
  IF i <= Len(s) /\ s[i] \in class THEN 1 + RunLen(s, i + 1, class) ELSE 0

StartsAt(s, i, word) == i + Len(word) - 1 <= Len(s) /\ SubSeq(s, i, i + Len(word) - 1) = word

\* the position of the first "}" of s at or after i, 0 when there is none
RECURSIVE FirstClose(_, _)
FirstClose(s, i) ==
  IF i > Len(s) THEN 0 ELSE IF s[i] = "}" THEN i ELSE FirstClose(s, i + 1)

\* Role_based.py:490: the length of the match of
\* /[0-9a-fA-F-]{8,}|/\d+|/invalid-[\w-]+|/\{.*?\} at position i of s, 0 when
\* it does not match there; the alternatives are tried in order
MatchLen(s, i) ==
  IF s[i] # "/" THEN 0
  ELSE LET hex == RunLen(s, i + 1, HexDashChars)
           num == RunLen(s, i + 1, DigitChars)
           inv == IF StartsAt(s, i + 1, <<"i", "n", "v", "a", "l", "i", "d", "-">>)
                  THEN RunLen(s, i + 9, WordDashChars) ELSE 0
           close == IF StartsAt(s, i + 1, <<"{">>) THEN FirstClose(s, i + 2) ELSE 0
       IN IF hex >= 8 THEN 1 + hex
          ELSE IF num >= 1 THEN 1 + num
          ELSE IF inv >= 1 THEN 9 + inv
          ELSE IF close > 0 THEN close - i + 1
          ELSE 0

\* re.sub(pattern, "", s), scanning from position i
RECURSIVE ReSubFrom(_, _)
ReSubFrom(s, i) ==
  IF i > Len(s) THEN <<>>
  ELSE IF MatchLen(s, i) > 0 THEN ReSubFrom(s, i + MatchLen(s, i))
  ELSE <<s[i]>> \o ReSubFrom(s, i + 1)

\* s.split("?")[0]
RECURSIVE BeforeQuery(_)
BeforeQuery(s) ==
  IF s = <<>> \/ Head(s) = "?" THEN <<>> ELSE <<Head(s)>> \o BeforeQuery(Tail(s))

\* s.rstrip("/")
RECURSIVE RStripSlash(_)
RStripSlash(s) ==
  IF s # <<>> /\ s[Len(s)] = "/" THEN RStripSlash(SubSeq(s, 1, Len(s) - 1)) ELSE s

\* Role_based.py:488-491: the group key of a result
base_endpoint(method, endpoint, api_name) ==
  LET joined == Strip(method \o <<" ">> \o endpoint)
      named == IF joined = <<>> THEN api_name ELSE joined
      stripped == RStripSlash(ReSubFrom(BeforeQuery(named), 1))
  IN IF stripped = <<>> THEN <<"/">> ELSE stripped

\* path segments an endpoint may hold
Segments ==
  { <<"f", "a", "r", "m", "e", "r", "s">>,
    <<"1", "2", "3">>,
    <<"4", "5", "6">>,
    <<"1", "2", "3", "a", "b", "c">>,
    <<"v", "2">>,
    <<"d", "e", "a", "d", "b", "e", "e", "f", "-", "0", "1">>,
    <<"i", "n", "v", "a", "l", "i", "d", "-", "i", "d">>,
    <<"{", "i", "d", "}">> }

MaxSegments == 2

SegmentLists == UNION { [1..n -> Segments] : n \in 1..MaxSegments }

RECURSIVE JoinPath(_)
JoinPath(segs) == IF segs = <<>> THEN <<>> ELSE <<"/">> \o Head(segs) \o JoinPath(Tail(segs))

QueryChoices == {<<>>, <<"?", "p", "a", "g", "e", "=", "2">>}

InitGroup ==
  /\ RunIdle
  /\ pc = "group"
  /\ fnIn \in [segments : SegmentLists, query : QueryChoices]
  /\ fnOut = <<>>

\* the group key generate_html gives a GET result with this endpoint
ApplyGroup ==
  /\ pc = "group"
  /\ pc' = "grouped"
  /\ fnOut' = base_endpoint(<<"G", "E", "T">>, JoinPath(fnIn.segments) \o fnIn.query, <<"G", "E", "T", " ">> \o JoinPath(fnIn.segments) \o fnIn.query)
  /\ UNCHANGED <<runVarsButPc, fnIn>>

SpecGroup == InitGroup /\ [][ApplyGroup]_vars

(***************************************************************************)
(* Claims                                                                  *)
(***************************************************************************)
\* C10: for every response body, expected_response, content query and
\* nested_keys, a passing verdict of validate_response_simple with
\* ALLOW_PARTIAL_MESSAGE_MATCH disabled implies a passing verdict with it
\* enabled.
C10_PartialAtLeastAsPermissive ==
  pc = "validated" => (fnOut.exact.ok => fnOut.partial.ok)

\* C10, strictness: some input passes with the toggle enabled and fails with
\* it disabled, on a top-level field and on a nested key.
C10_WitnessStrictlyMorePermissive ==
  /\ pc = "validated"
  /\ fnOut.partial.ok
  /\ ~fnOut.exact.ok
  /\ IsDict(fnIn.expected_response)
  /\ "status" \in DOMAIN fnIn.expected_response.f
  /\ fnIn.nested_keys # <<>>

\* an input with a status expectation and nested keys that passes with the
\* toggle disabled (and so with it enabled)
C10_WitnessExactPasses ==
  /\ pc = "validated"
  /\ fnOut.exact.ok
  /\ fnOut.partial.ok
  /\ IsDict(fnIn.expected_response)
  /\ "status" \in DOMAIN fnIn.expected_response.f
  /\ fnIn.nested_keys # <<>>

\* C1: in run_all_tests a case whose every attempt raises a transport error
\* is attempted exactly MAX_RETRIES + 1 times: an error on an earlier attempt
\* records nothing and is retried; the error on attempt MAX_RETRIES + 1
\* appends exactly one FAIL result (status_code "ERROR", the escaped
\* exception text as detail), adds one to failed, and returns to the case loop.
C1_RetryBound ==
  [][ (variant = "role_based" /\ pc = "attempt" /\ lastHttp' = "error") =>
        IF cur.sent = MAX_RETRIES
        THEN /\ IsAppendOf(results', results)
             /\ LET r == results'[Len(results')]
                IN /\ r.id = cur.id
                   /\ r.result = "FAIL"
                   /\ r.status_code = JStr("ERROR")
                   /\ r.details = [kind |-> "exception", text |-> HtmlEscape(ExceptionText)]
             /\ SUMMARY' = [SUMMARY EXCEPT !.failed = @ + 1]
             /\ pc' = "cases"
        ELSE /\ cur.sent < MAX_RETRIES
             /\ results' = results
             /\ SUMMARY' = SUMMARY
             /\ pc' = "attempt"
             /\ cur'.sent = cur.sent + 1 ]_vars

\* a case failed after its retries, and the case after it was executed and passed
C1_WitnessRunContinues ==
  /\ variant = "role_based"
  /\ Len(results) >= 2
  /\ results[1].status_code = JStr("ERROR")
  /\ results[1].result = "FAIL"
  /\ results[2].result = "PASS"
  /\ SUMMARY.failed = 1

\* C2: in both variants the case loop of a file is left only once every
\* case of the file has been taken (no failure or skip of a case keeps the
\* later cases of its file from being processed), and a finished run has
\* counted every case of every loaded file in total.
C2_ErrorsAreCaseScoped ==
  [][ /\ (pc \in {"cases", "attempt"} /\ pc' \notin {"cases", "attempt"})
         => (pc' = "files" /\ caseIdx' = files[fileIdx].ncases)
      /\ (pc' = "done" /\ \A f \in 1..Len(files) : files[f].status # "unreadable")
         => SUMMARY'.total = SumCases(files) ]_vars

\* C3: when the Role_based.py process has exited, its status is zero
\* exactly when no recorded result is FAIL, which is exactly when failed = 0;
\* skipped cases do not enter.
C3_ExitStatusZeroIffNoFail ==
  (variant = "role_based" /\ pc = "exited") =>
     /\ exitCode \in {0, 1}
     /\ (exitCode = 0) <=> (\A i \in 1..Len(results) : results[i].result # "FAIL")
     /\ (exitCode = 0) <=> (SUMMARY.failed = 0)

\* a run with a skipped and a passed case exited with zero
C3_WitnessSkippedExitsZero ==
  /\ variant = "role_based"
  /\ pc = "exited"
  /\ exitCode = 0
  /\ SUMMARY.skipped > 0
  /\ SUMMARY.passed > 0

\* a run with a failed case exited non-zero
C3_WitnessFailExitsNonZero ==
  /\ variant = "role_based"
  /\ pc = "exited"
  /\ exitCode = 1
  /\ \E i \in 1..Len(results) : results[i].result = "FAIL"

\* C4: the login endpoint is called at most once for each of the roles
\* admin, aggregator and branch.
C4_OneLoginPerRole ==
  \A r \in Roles : loginCalls[r] <= 1

\* C4 (second half): no login call is made once the pre-fetch is over.
C4_NoLoginWhileProcessing ==
  [][pc # "import" => loginCalls' = loginCalls]_vars

\* C5: in both variants the headers resolved for a case with
\* auth_token = "empty" hold no header named Authorization (in any letter
\* case), whatever the suite and case headers, the suite's tokens map and
\* the pre-fetched tokens are.
C5_EmptyMeansNoAuthorization ==
  (pc = "requested" /\ fnIn.auth_token = JStr("empty")) =>
     \A v \in {"role_based", "new"} :
        \A k \in DOMAIN fnOut[v] : LowerName[k] # "authorization"

\* C6 (as stated): every HTTP attempt, whether it returned a response or
\* raised a transport error, adds one elapsed-time sample to PERF_STATS.
C6_EveryAttemptRecorded ==
  [][lastHttp' # "none" => Len(PERF_STATS') = Len(PERF_STATS) + 1]_vars

\* C6 (amended): a step adds exactly one sample to PERF_STATS when it is an
\* HTTP attempt that returned a response, and leaves PERF_STATS unchanged
\* otherwise; an attempt that raised a transport error adds none.
C6_ResponsesRecorded ==
  [][ IF lastHttp' = "response"
      THEN IsAppendOf(PERF_STATS', PERF_STATS)
      ELSE PERF_STATS' = PERF_STATS ]_vars

\* an earlier case was answered and sampled; the current case has had
\* failed attempts, none of them sampled
C6_WitnessErrorNotSampled ==
  /\ variant = "role_based"
  /\ pc = "attempt"
  /\ cur.sent > 0
  /\ lastHttp = "error"
  /\ Len(PERF_STATS) = 1
  /\ Len(results) = 1

\* whether the case just taken is one the variant skips
IsSkipCase(v, case) ==
  \/ ~Truthy(EndpointOf(case))
  \/ v = "role_based" /\ MethodOf(case, "GET") # "GET"

\* C7: taking a case whose endpoint does not resolve (or, in run_all_tests,
\* whose method is not GET) makes no HTTP attempt, records exactly one
\* SKIPPED result (a result of the run in Role_based.py, the skip pytest
\* records in new.py), adds one to skipped and leaves passed and failed alone.
C7_SkippedNeverExecuted ==
  [][ (lastCase' # NoCase /\ IsSkipCase(variant, lastCase')) =>
        /\ lastHttp' = "none"
        /\ pc' # "attempt"
        /\ PERF_STATS' = PERF_STATS
        /\ SUMMARY'.skipped = SUMMARY.skipped + 1
        /\ SUMMARY'.passed = SUMMARY.passed
        /\ SUMMARY'.failed = SUMMARY.failed
        /\ IF variant = "role_based"
           THEN /\ IsAppendOf(results', results)
                /\ results'[Len(results')].result = "SKIPPED"
           ELSE /\ IsAppendOf(pytestReport', pytestReport)
                /\ pytestReport'[Len(pytestReport')].outcome = "skipped" ]_vars

\* run_all_tests skipped a non-GET case and a case without endpoint
C7_WitnessBothSkips ==
  /\ variant = "role_based"
  /\ SUMMARY = [total |-> 2, passed |-> 0, failed |-> 0, skipped |-> 2]
  /\ Len(results) = 2
  /\ results[1].details.kind = "non-GET"
  /\ results[2].details.kind = "Missing endpoint"
  /\ PERF_STATS = <<>>

\* C8: in run_all_tests every step leaves the result sequence alone or
\* appends one result to it (the results already there keep their place and
\* content), and the ids of the results are those of the cases processed so
\* far, one each, in file-then-case order: all the cases taken, less the one
\* whose attempts are still under way.
C8_ResultsAppendOnly ==
  [][ variant = "role_based" =>
        /\ results' = results \/ IsAppendOf(results', results)
        /\ LET taken == TakenIds(files, fileIdx', caseIdx')
           IN IF pc' = "attempt"
              THEN IdsOf(results') = SubSeq(taken, 1, Len(taken) - 1)
              ELSE IdsOf(results') = taken ]_vars

\* two files of one case each: the first case failed after its retries, the
\* second was recorded after it
C8_WitnessOrderAcrossFiles ==
  /\ variant = "role_based"
  /\ pc = "done"
  /\ Len(results) = 2
  /\ results[1].id = TestId(1, 1)
  /\ results[1].status_code = JStr("ERROR")
  /\ results[2].id = TestId(2, 1)

SensitiveNames == {"authorization", "token", "x-api-key", "x-access-token", "x-id-token"}

\* C9: the redact_headers of both variants replaces the value of every
\* header whose lower-cased name is authorization, token, x-api-key,
\* x-access-token or x-id-token by the redaction marker, and keeps every
\* other header's value.
C9_RedactionTotal ==
  pc = "redacted" =>
     \A v \in {"role_based", "new"} :
        /\ DOMAIN fnOut[v] = DOMAIN fnIn
        /\ \A k \in DOMAIN fnIn :
              fnOut[v][k] = IF LowerName[k] \in SensitiveNames THEN Redacted ELSE fnIn[k]

\* C11: for a case whose expected_status is an integer, in both variants a
\* passing verdict implies that the observed status code equals
\* expected_status, and an observed status that differs gives a failing
\* verdict (in run_all_tests with a discrepancy naming the expected and the
\* observed status, in new.py the AssertionError that names them).
C11_PassImpliesExpectedStatus ==
  (pc = "judged" /\ fnIn.case.expected_status # Absent /\ fnIn.case.expected_status.t = "int") =>
     LET expected == fnIn.case.expected_status.n
         observed == fnIn.resp.status_code
     IN /\ fnOut.role_based.test_passed => observed = expected
        /\ fnOut.new = "pass" => observed = expected
        /\ observed # expected =>
              /\ ~fnOut.role_based.test_passed
              /\ \E i \in 1..Len(fnOut.role_based.errors) :
                    fnOut.role_based.errors[i] = <<"Expected status", JInt(expected), observed>>
              /\ fnOut.new = "assert"

\* C11, for the expected_status values that are not 0: the statement holds.
C11_NonZeroExpectedStatus ==
  (pc = "judged" /\ fnIn.case.expected_status # Absent /\ fnIn.case.expected_status.t = "int"
     /\ fnIn.case.expected_status.n # 0) =>
     LET expected == fnIn.case.expected_status.n
         observed == fnIn.resp.status_code
     IN /\ fnOut.role_based.test_passed => observed = expected
        /\ fnOut.new = "pass" => observed = expected
        /\ observed # expected =>
              /\ ~fnOut.role_based.test_passed
              /\ \E i \in 1..Len(fnOut.role_based.errors) :
                    fnOut.role_based.errors[i] = <<"Expected status", JInt(expected), observed>>
              /\ fnOut.new = "assert"

\* C12: with expected_response a list of candidates, the case passes exactly
\* when at least one candidate fully matches the response, at whatever
\* position and whatever the candidates before it produce; this for the
\* validation of both variants.
C12_PassIffSomeCandidateMatches ==
  pc = "matched" =>
     LET some == \E i \in 1..Len(fnIn.options) :
                    Candidate(fnIn.resp_json, fnIn.options[i]).kind = "match"
     IN /\ (fnOut.new.kind = "pass") <=> some
        /\ fnOut.role_based.ok <=> some

\* the test of every loaded file has run (new.py under pytest)
EveryLoadedFileRan ==
  \A f \in 1..Len(files) :
     files[f].status = "ok" => \E i \in 1..Len(pytestReport) : pytestReport[i].file = f

\* C13: when the run is over, a file that could not be loaded (unreadable
\* or malformed) has contributed nothing and every other file has been
\* loaded and run: in run_all_tests the results are those of all the cases
\* of the loadable files, in discovery order; under pytest the test of
\* every loadable file has run.
C13_BadFilesAreSkipped ==
  pc = "done" =>
     IF variant = "role_based"
     THEN /\ IdsOf(results) = IdsUpTo(files, Len(files))
          /\ SUMMARY.total = SumCases(files)
     ELSE EveryLoadedFileRan

\* C13, with the unreadable files of new.py set aside: the statement holds.
C13_MalformedFilesAreSkipped ==
  (pc = "done" /\ (variant = "new" => \A f \in 1..Len(files) : files[f].status # "unreadable")) =>
     IF variant = "role_based"
     THEN /\ IdsOf(results) = IdsUpTo(files, Len(files))
          /\ SUMMARY.total = SumCases(files)
     ELSE EveryLoadedFileRan

\* the volatile segments the statement names: pure numeric ids, UUID-like
\* tokens (eight or more hexadecimal digits and dashes), invalid-* segments
\* and {placeholder} segments
IsVolatile(seg) ==
  \/ \A i \in 1..Len(seg) : seg[i] \in DigitChars
  \/ Len(seg) >= 8 /\ \A i \in 1..Len(seg) : seg[i] \in HexDashChars
  \/ Len(seg) > 8 /\ SubSeq(seg, 1, 8) = <<"i", "n", "v", "a", "l", "i", "d", "-">>
  \/ seg[1] = "{" /\ seg[Len(seg)] = "}"

RECURSIVE StableSegments(_)
StableSegments(segs) ==
  IF segs = <<>> THEN <<>>
  ELSE (IF IsVolatile(Head(segs)) THEN <<>> ELSE <<Head(segs)>>) \o StableSegments(Tail(segs))

\* C14: the group key of a GET result is the method and the path with
\* exactly the volatile segments and the query string removed; the other
\* segments are left intact.
C14_KeyIsPathWithoutVolatileSegments ==
  pc = "grouped" =>
     fnOut = <<"G", "E", "T", " ">> \o JoinPath(StableSegments(fnIn.segments))

\* C14, first half only: endpoints that differ only in volatile segments or
\* in the query string get the same group key.
C14_SameKeyUpToVolatileSegments ==
  pc = "grouped" =>
     \A other \in SegmentLists :
        StableSegments(other) = StableSegments(fnIn.segments) =>
           base_endpoint(<<"G", "E", "T">>, JoinPath(other), <<>>) = fnOut

\* C15: in run_all_tests an attempt that returns a response, of whatever
\* status code and after however many attempts that raised transport
\* errors, ends the case: exactly one result is appended, its verdict and
\* discrepancies are those of the validation of that response, and exactly
\* one of passed and failed grows by one, according to that verdict.
C15_ResponseEndsCase ==
  [][ (variant = "role_based" /\ pc = "attempt" /\ lastHttp' = "response") =>
        /\ pc' = "cases"
        /\ IsAppendOf(results', results)
        /\ LET r == results'[Len(results')]
           IN /\ r.id = cur.id
              /\ \E resp \in RunResponses :
                    LET v == CaseVerdict(cur.case, resp, fileCfg.headers, env.partial)
                    IN /\ r.status_code = JInt(resp.status_code)
                       /\ r.details.errors = v.errors
                       /\ r.result = IF v.test_passed THEN "PASS" ELSE "FAIL"
              /\ SUMMARY' = IF r.result = "PASS"
                            THEN [SUMMARY EXCEPT !.passed = @ + 1]
                            ELSE [SUMMARY EXCEPT !.failed = @ + 1] ]_vars

\* the first MAX_RETRIES attempts of the only case raised transport errors,
\* the last one was answered and the case passed; failed was not touched
C15_WitnessAnsweredAfterRetries ==
  /\ variant = "role_based"
  /\ lastHttp = "response"
  /\ lastAttempt = MAX_RETRIES
  /\ Len(results) = 1
  /\ results[1].result = "PASS"
  /\ SUMMARY = [total |-> 1, passed |-> 1, failed |-> 0, skipped |-> 0]

\* a 404 answer to the first attempt ended the case, with a FAIL result
C15_WitnessErrorStatusNotRetried ==
  /\ variant = "role_based"
  /\ lastHttp = "response"
  /\ lastAttempt = 0
  /\ Len(results) = 1
  /\ results[1].status_code = JInt(404)
  /\ results[1].result = "FAIL"
  /\ pc = "cases"

CaseBoundary == pc \in {"files", "cases", "done", "exited"}

\* C16: at every case boundary of a run, in both variants,
\* total = passed + failed + skipped, and in run_all_tests total is the
\* number of recorded results.
C16_Accounting ==
  (variant \in {"role_based", "new"} /\ CaseBoundary) =>
     /\ SUMMARY.total = SUMMARY.passed + SUMMARY.failed + SUMMARY.skipped
     /\ variant = "role_based" => SUMMARY.total = Len(results)

\* C16 for run_all_tests alone: the statement holds.
C16_RoleBasedAccounting ==
  (variant = "role_based" /\ CaseBoundary) =>
     /\ SUMMARY.total = SUMMARY.passed + SUMMARY.failed + SUMMARY.skipped
     /\ SUMMARY.total = Len(results)

\* C16, last part: no counter ever decreases (both variants).
C16_CountersNeverDecrease ==
  [][ (variant # "none") =>
        /\ SUMMARY'.total >= SUMMARY.total
        /\ SUMMARY'.passed >= SUMMARY.passed
        /\ SUMMARY'.failed >= SUMMARY.failed
        /\ SUMMARY'.skipped >= SUMMARY.skipped ]_vars
====
